---- MODULE Spec2Model ----
(***************************************************************************)
(* A model of the trading bots of this repository: BaseTradingBot          *)
(* (base_bot.py), BinanceTradingBot (binance_tradingbot.py) and            *)
(* SSITradingBot (ssi_tradingbot.py).                                      *)
(*                                                                         *)
(* Representation.  Prices are whole numbers of price units.  Quantities   *)
(* (order quantity, position_size) are whole numbers: of lots for the base *)
(* and the SSI bot, of 1/QtyScale of a coin for the Binance bot (whose PnL *)
(* is then held in 1/QtyScale of a currency unit).  Python's None is the   *)
(* number None (-1) for the numeric fields and the string "None" for       *)
(* position.  A float that need not be a whole number (a percentage, a     *)
(* moving average, an RSI) is held as an exact fraction [num, den].  The   *)
(* float rounding of the source is not modelled.                           *)
(***************************************************************************)
EXTENDS Integers, Sequences, FiniteSets, TLC

VARIABLES
    bot,              \* which class runs: "base", "binance" or "ssi"
    mode,             \* self.mode
    symbol,           \* self.symbol
    strategy_name,    \* self.strategy_name
    trade_amount_qty, \* SSI: self.trade_amount_qty (fixed lot)
    current_price,    \* self.current_price
    klines,           \* self.klines: the closes of the stored candles, oldest first
    klines_closed,    \* history: for each stored candle, whether it had closed
                      \* when it was appended
    position,         \* self.position: "None", "LONG" or "SHORT"
    entry_price,      \* self.entry_price
    position_size,    \* self.position_size
    unrealized_pnl,   \* self.unrealized_pnl, a fraction
    total_trades,     \* self.total_trades
    winning_trades,   \* self.winning_trades
    total_pnl,        \* self.total_pnl
    running,          \* self.running
    ev,               \* history: the handler that ran last and the order it sent
    filled_entries,   \* history: entry orders the gateway returned an order for
    filled_exits,     \* history: exit orders the gateway returned an order for
    kline_events,     \* history: closed candles appended by the kline handler
    pc,               \* where each thread of the Binance bot stands
    waiting,          \* the order each thread waits for the gateway to answer
    calc              \* the last call of a rounding, sizing or indicator function
                      \* on its own: its arguments and what it returned

vars == <<bot, mode, symbol, strategy_name, trade_amount_qty, current_price, klines,
          klines_closed, position, entry_price, position_size, unrealized_pnl, total_trades,
          winning_trades, total_pnl, running, ev, filled_entries, filled_exits,
          kline_events, pc, waiting, calc>>

(***************************************************************************)
(* Bounds of the model                                                     *)
(***************************************************************************)
MaxTrades == 1
MaxKlineEvents == 2

(***************************************************************************)
(* Program constants                                                       *)
(***************************************************************************)
None == -1
NoPosition == "None"
QtyScale == 1
KlinesMaxLen == 200
MaFast == 10
MaSlow == 30
RsiPeriod == 14
RsiOverbought == 70
RsiOversold == 30
StopLossPct == 2
TakeProfitPct == 3
VN30Multiplier == 100000
TradeAmountUsdt == 200   \* config 'trade_amount_usdt' (100 when not given)
MinNotional == 10
StepDecimals == 0
SSIMockPrice == 1000
SSISeedCandles == 50
SSISeedClose == 1000
HistoryLimit == 200   \* get_klines(limit=200)

\* The prices the feeds and the gateway deliver.
Prices == {98, 103, 107}
\* The closes of the candles the kline stream delivers.
KlineCloses == {90, 103}
\* The quantities an implementation of the abstract calculate_quantity returns.
AbstractQuantities == {-1, 0, 1, 2}

\* Python truthiness of a number-or-None field: `not x`.
Falsy(x) == x = None \/ x = 0

\* 'VN30' in self.symbol
HasVN30(sym) == sym = "VN30F1M"

Frac(n, d) == [num |-> n, den |-> d]

RECURSIVE Pow10(_)
Pow10(n) == IF n = 0 THEN 1 ELSE 10 * Pow10(n - 1)

RECURSIVE SumSeq(_)
SumSeq(q) == IF q = <<>> THEN 0 ELSE Head(q) + SumSeq(Tail(q))

\* list(self.klines)[-n:]
LastN(q, n) == IF Len(q) <= n THEN q ELSE SubSeq(q, Len(q) - n + 1, Len(q))

(***************************************************************************)
(* The bot's fields (and the history) as one record, so that a handler is  *)
(* a function from the state before to the state after.                    *)
(***************************************************************************)
State ==
    [current_price |-> current_price, klines |-> klines,
     klines_closed |-> klines_closed, position |-> position,
     entry_price |-> entry_price, position_size |-> position_size,
     unrealized_pnl |-> unrealized_pnl, total_trades |-> total_trades,
     winning_trades |-> winning_trades, total_pnl |-> total_pnl,
     running |-> running, ev |-> ev, filled_entries |-> filled_entries,
     filled_exits |-> filled_exits, kline_events |-> kline_events]

SetState(s) ==
    /\ current_price' = s.current_price
    /\ klines' = s.klines
    /\ klines_closed' = s.klines_closed
    /\ position' = s.position
    /\ entry_price' = s.entry_price
    /\ position_size' = s.position_size
    /\ unrealized_pnl' = s.unrealized_pnl
    /\ total_trades' = s.total_trades
    /\ winning_trades' = s.winning_trades
    /\ total_pnl' = s.total_pnl
    /\ running' = s.running
    /\ ev' = s.ev
    /\ filled_entries' = s.filled_entries
    /\ filled_exits' = s.filled_exits
    /\ kline_events' = s.kline_events
    /\ UNCHANGED <<bot, mode, symbol, strategy_name, trade_amount_qty, calc>>

\* The handler did not call check_strategy.
NotEvaluated == ""

\* No statistics were printed.
NoStats == [printed |-> FALSE, evaluated |-> FALSE, num |-> 0, den |-> 1]

\* The history record of a handler that has not (yet) sent an order.  Of the
\* order: its kind ("entry" or "exit"), side and quantity; whether the gateway
\* returned an order (ok); the quantity the venue filled, whether the response
\* listed the fills, and what the fills cost; the order dict's price.  Then:
\* whether open_position returned at its first test (guarded), the pnl
\* close_position computed, whether close_position raised, the win rate
\* of the status report or final statistics the handler printed, and the
\* signal check_strategy returned to the handler, if the handler called it.
NewEv(op, arg) ==
    [op |-> op, arg |-> arg, kind |-> "none", side |-> "", quantity |-> 0,
     ok |-> FALSE, executedQty |-> 0, hasFills |-> FALSE, fillCost |-> 0,
     price |-> 0, reason |-> "", guarded |-> FALSE, pnl |-> 0, raised |-> FALSE,
     stats |-> NoStats, signal |-> NotEvaluated]

(***************************************************************************)
(* The execution gateway.  What the venue answers to an order is an input: *)
(* an error (ok = FALSE), or an order filled in full, by half or not at    *)
(* all, in one fill or in two equal fills at p1 and p2, and (Binance) with *)
(* or without the 'fills' list in the response.                            *)
(***************************************************************************)
Outcomes ==
    {[ok |-> FALSE, fill |-> "full", hasFills |-> TRUE, p1 |-> 100, p2 |-> 100],
     [ok |-> TRUE, fill |-> "zero", hasFills |-> TRUE, p1 |-> 100, p2 |-> 100],
     [ok |-> TRUE, fill |-> "half", hasFills |-> TRUE, p1 |-> 100, p2 |-> 100],
     [ok |-> TRUE, fill |-> "full", hasFills |-> FALSE, p1 |-> 100, p2 |-> 100],
     [ok |-> TRUE, fill |-> "full", hasFills |-> TRUE, p1 |-> 97, p2 |-> 103],
     [ok |-> TRUE, fill |-> "full", hasFills |-> TRUE, p1 |-> 103, p2 |-> 103]}

\* The SSI bot's place_order is a mock that never asks a venue.
OutcomesOf(b) == IF b = "ssi" THEN {CHOOSE o \in Outcomes : ~o.ok} ELSE Outcomes

ExecutedQty(o, quantity) ==
    CASE o.fill = "zero" -> 0
      [] o.fill = "half" -> IF quantity >= 2 THEN quantity \div 2 ELSE quantity
      [] OTHER -> quantity

\* The 'fills' of the response: each has a price and a qty; they add up to
\* executedQty and their average price is a whole number of price units.
Fills(o, quantity) ==
    LET e == ExecutedQty(o, quantity) IN
    IF e <= 0 THEN <<>>
    ELSE IF o.p1 # o.p2 /\ e % 2 = 0
         THEN <<[price |-> o.p1, qty |-> e \div 2], [price |-> o.p2, qty |-> e \div 2]>>
         ELSE <<[price |-> (o.p1 + o.p2) \div 2, qty |-> e]>>

RECURSIVE TotalCost(_)
TotalCost(fills) ==
    IF fills = <<>> THEN 0
    ELSE Head(fills).price * Head(fills).qty + TotalCost(Tail(fills))

\* What place_order returns: None (ok = FALSE) or the order dict.
NoOrder == [ok |-> FALSE, price |-> 0, quantity |-> 0]

\* BinanceTradingBot.place_spot_order: the order dict made of the response.
place_spot_order(o, quantity) ==
    IF ~o.ok THEN NoOrder
    ELSE LET filled_qty == ExecutedQty(o, quantity)
             fills == Fills(o, quantity)
             avg_price == IF o.hasFills
                          THEN (IF filled_qty > 0 THEN TotalCost(fills) \div filled_qty ELSE 0)
                          ELSE 0
         IN [ok |-> TRUE, price |-> avg_price, quantity |-> filled_qty]

\* BaseTradingBot.place_order around the abstract place_order_api, whose order
\* dict gives the average price of its fills and the quantity filled.
base_place_order(o, quantity) ==
    IF ~o.ok THEN NoOrder
    ELSE LET e == ExecutedQty(o, quantity) IN
         [ok |-> TRUE,
          price |-> IF e > 0 THEN TotalCost(Fills(o, quantity)) \div e ELSE 0,
          quantity |-> e]

\* SSITradingBot.place_order: the mocked response, always filled in full at
\* the current price (1000 when there is none).
ssi_place_order(s, quantity) ==
    [ok |-> TRUE,
     price |-> IF Falsy(s.current_price) THEN SSIMockPrice ELSE s.current_price,
     quantity |-> quantity]

place_order(s, o, quantity) ==
    CASE bot = "binance" -> place_spot_order(o, quantity)
      [] bot = "ssi" -> ssi_place_order(s, quantity)
      [] OTHER -> base_place_order(o, quantity)

\* The history of the order a handler sent.
Sent(s, kind, side, quantity, o, order, reason) ==
    [s.ev EXCEPT !.kind = kind, !.side = side, !.quantity = quantity,
                 !.ok = order.ok,
                 !.executedQty = IF bot = "ssi" THEN quantity ELSE ExecutedQty(o, quantity),
                 !.hasFills = IF bot = "ssi" THEN TRUE ELSE o.hasFills,
                 !.fillCost = IF bot = "ssi" THEN order.price * quantity
                              ELSE TotalCost(Fills(o, quantity)),
                 !.price = order.price, !.reason = reason]

(***************************************************************************)
(* Sizing                                                                  *)
(***************************************************************************)
\* Decimal(str(x)).quantize(Decimal(str(step)), rounding=ROUND_DOWN) of the
\* fraction raw >= 0: raw cut to the number of decimals of the step's text;
\* the result in 1/scale.
quantize_down(raw, decimals, scale) ==
    ((raw.num * Pow10(decimals)) \div raw.den) * (scale \div Pow10(decimals))

\* A bug: the resized quantity has no 1% headroom.
notional_quantity_Mut(amount, price, min_notional, decimals, scale) ==
    LET quantity == quantize_down(Frac(amount.num, amount.den * price), decimals, scale) IN
    IF quantity * price < min_notional * scale
    THEN quantize_down(Frac(min_notional, price), decimals, scale)
    ELSE quantity

\* The body of BinanceTradingBot.calculate_quantity for a price above 0:
\* the amount over the price, rounded; when its notional is under
\* min_notional, min_notional / price * 1.01, rounded.
notional_quantity(amount, price, min_notional, decimals, scale) ==
    LET quantity == quantize_down(Frac(amount.num, amount.den * price), decimals, scale) IN
    IF quantity * price < min_notional * scale
    THEN quantize_down(Frac(min_notional * 101, price * 100), decimals, scale)
    ELSE quantity

\* BinanceTradingBot.round_quantity of the fraction raw (in coins): quantize
\* with ROUND_DOWN to the decimals of step_size; the result in 1/QtyScale.
round_quantity(raw) == quantize_down(raw, StepDecimals, QtyScale)

\* A bug: with no price yet the quantity is sized at the last stored close.
binance_calculate_quantity_Mut(s) ==
    notional_quantity(Frac(TradeAmountUsdt, 1),
                      IF Falsy(s.current_price) THEN s.klines[Len(s.klines)]
                      ELSE s.current_price,
                      MinNotional, StepDecimals, QtyScale)

\* BinanceTradingBot.calculate_quantity
binance_calculate_quantity(s) ==
    IF Falsy(s.current_price) THEN 0
    ELSE notional_quantity(Frac(TradeAmountUsdt, 1), s.current_price, MinNotional,
                           StepDecimals, QtyScale)

\* calculate_quantity: Binance sizes by notional, SSI returns the configured
\* lot, the base class leaves it abstract (absq is what it returns).
calculate_quantity(s, absq) ==
    CASE bot = "binance" -> binance_calculate_quantity(s)
      [] bot = "ssi" -> trade_amount_qty
      [] OTHER -> absq

(***************************************************************************)
(* The rounding functions for any step.  A step_size or tick_size is the   *)
(* number units / 10^decimals, held as a Python float (float = TRUE: the   *)
(* Binance filters, 0.01, 0.0001, 0.1) or as an int (SSI: 1, 100).  A      *)
(* float's text has a '.', and at least one decimal ('5.0'); an int's text *)
(* has none.  Steps under 0.0001, whose text is in exponent form, are left *)
(* out.  Results are whole numbers of 1/CalcScale.                         *)
(***************************************************************************)
CalcDecimals == 5
CalcScale == Pow10(CalcDecimals)

Step(float, units, decimals) == [float |-> float, units |-> units, decimals |-> decimals]

\* The step in 1/CalcScale.
StepValue(step) == step.units * Pow10(CalcDecimals - step.decimals)

\* The largest multiple of step that is not above the fraction raw >= 0.
FloorToStep(raw, step) ==
    ((raw.num * Pow10(step.decimals)) \div (raw.den * step.units)) * StepValue(step)

\* precision = len(str(step).split('.')[-1].rstrip('0')), and the test
\* `'.' in str(step) and precision > 0`
UsesQuantize(step) == step.float /\ step.decimals > 0

\* The number of decimals of Decimal(str(step)): those of the text.
TextDecimals(step) ==
    IF ~step.float THEN 0 ELSE IF step.decimals = 0 THEN 1 ELSE step.decimals

\* int(x) of the fraction raw >= 0
int_of(raw) == quantize_down(raw, 0, CalcScale)

\* round_quantity(quantity) of class cls with self.step_size = step
class_round_quantity(cls, raw, step) ==
    CASE cls = "binance" -> quantize_down(raw, TextDecimals(step), CalcScale)
      [] cls = "ssi" -> int_of(raw)
      [] OTHER -> IF UsesQuantize(step)
                  THEN quantize_down(raw, TextDecimals(step), CalcScale)
                  ELSE int_of(raw)

\* round_price(price) of class cls with self.tick_size = tick.  Without
\* quantize the tick is a whole number: the Binance and SSI classes return
\* int(price - (price % tick)), the base class a bare `return`, None.
class_round_price(cls, raw, tick) ==
    IF UsesQuantize(tick) THEN quantize_down(raw, TextDecimals(tick), CalcScale)
    ELSE IF cls = "base" THEN None
    ELSE (raw.num \div (raw.den * tick.units)) * tick.units * CalcScale

\* No function was called yet.
NoCalc ==
    [fn |-> "none", cls |-> "", raw |-> Frac(0, 1), step |-> Step(TRUE, 1, 0),
     price |-> 0, min_notional |-> 0, window |-> <<>>, out |-> 0, rsi |-> Frac(0, 0)]

(***************************************************************************)
(* Position management                                                     *)
(***************************************************************************)
\* open_position's first test: `self.position is not None`
PositionExists(s) == s.position # NoPosition

\* `'LONG' if signal == 'BUY' else 'SHORT'`
SideOfSignal(signal) == IF signal = "BUY" THEN "LONG" ELSE "SHORT"

\* A bug: the entry price is taken from the last tick.
OpenCommit_Mut(s, signal, order) ==
    [s EXCEPT !.position = SideOfSignal(signal),
              !.entry_price = s.current_price,
              !.position_size = order.quantity,
              !.total_trades = @ + 1,
              !.filled_entries = @ + 1]

\* The assignments of open_position once place_order returned an order.
OpenCommit(s, signal, order) ==
    [s EXCEPT !.position = SideOfSignal(signal),
              !.entry_price = order.price,
              !.position_size = order.quantity,
              !.total_trades = @ + 1,
              !.filled_entries = @ + 1]

\* A bug: the trade is counted before the order is looked at.
EntryResult_Mut(s, signal, order) ==
    IF order.ok THEN OpenCommit(s, signal, order)
    ELSE [s EXCEPT !.total_trades = @ + 1]

\* `if order:` of open_position
EntryResult(s, signal, order) ==
    IF order.ok THEN OpenCommit(s, signal, order) ELSE s

\* A bug: the quantity is not tested before the order is sent.
open_position_Mut(s, signal, o, absq) ==
    IF PositionExists(s)
    THEN [s EXCEPT !.ev.guarded = TRUE]
    ELSE LET quantity == calculate_quantity(s, absq)
             order == place_order(s, o, quantity)
             s1 == [s EXCEPT !.ev = Sent(s, "entry", signal, quantity, o, order, "")]
         IN EntryResult(s1, signal, order)

\* open_position(signal).  The history keeps the quantity that made it
\* return with "Invalid Quantity".
open_position(s, signal, o, absq) ==
    IF PositionExists(s)
    THEN [s EXCEPT !.ev.guarded = TRUE]
    ELSE LET quantity == calculate_quantity(s, absq) IN
         IF quantity <= 0
         THEN [s EXCEPT !.ev.reason = "Invalid Quantity", !.ev.quantity = quantity]
         ELSE LET order == place_order(s, o, quantity)
                  s1 == [s EXCEPT !.ev = Sent(s, "entry", signal, quantity, o, order, "")]
              IN EntryResult(s1, signal, order)

\* The contract multiplier close_position applies to the PnL.
ContractMultiplier ==
    CASE bot = "base" -> IF mode = "futures" /\ HasVN30(symbol) THEN VN30Multiplier ELSE 1
      [] bot = "ssi" -> IF mode = "futures" THEN VN30Multiplier ELSE 1
      [] OTHER -> 1

\* A bug: the SHORT branch is not negated.
RealizedPnl_Mut(pos, entry, exit_price, size) ==
    (exit_price - entry) * size * ContractMultiplier

\* The pnl close_position computes.
RealizedPnl(pos, entry, exit_price, size) ==
    IF pos = "LONG"
    THEN (exit_price - entry) * size * ContractMultiplier
    ELSE (entry - exit_price) * size * ContractMultiplier

\* `if pnl > 0: self.winning_trades += 1`
IsWin(pnl) == pnl > 0

\* A bug: every exit is a SELL.
ExitSide_Mut(pos) == "SELL"

\* `side = 'SELL' if self.position == 'LONG' else 'BUY'`
ExitSide(pos) == IF pos = "LONG" THEN "SELL" ELSE "BUY"

\* Whether close_position raises between computing pnl and booking it: the
\* Binance bot divides by entry_price for pnl_pct (ZeroDivisionError), and an
\* entry_price of None cannot be subtracted (TypeError).
ClosePositionRaises(s) ==
    s.entry_price = None \/ (bot = "binance" /\ s.entry_price = 0)

\* The assignments of close_position once place_order returned an order.
CloseCommit(s, order) ==
    LET pnl == RealizedPnl(s.position, s.entry_price, order.price, s.position_size) IN
    [s EXCEPT !.ev.pnl = pnl,
              !.total_pnl = @ + pnl,
              !.winning_trades = IF IsWin(pnl) THEN @ + 1 ELSE @,
              !.position = NoPosition,
              !.entry_price = None,
              !.position_size = 0,
              !.filled_exits = @ + 1]

\* A bug: the position is reset whatever the order's fate.
ExitResult_Mut(s, order) ==
    IF order.ok THEN CloseCommit(s, order)
    ELSE [s EXCEPT !.position = NoPosition, !.entry_price = None, !.position_size = 0]

\* `if order:` of close_position.  When it raises, the order is filled and
\* nothing is assigned.
ExitResult(s, order) ==
    IF ~order.ok THEN s
    ELSE IF ClosePositionRaises(s)
         THEN [s EXCEPT !.ev.raised = TRUE,
                        !.ev.pnl = IF s.entry_price = None THEN 0
                                   ELSE RealizedPnl(s.position, s.entry_price, order.price,
                                                    s.position_size),
                        !.filled_exits = @ + 1]
         ELSE CloseCommit(s, order)

\* close_position(reason)
close_position(s, reason, o) ==
    IF s.position = NoPosition THEN s
    ELSE LET side == ExitSide(s.position)
             order == place_order(s, o, s.position_size)
             s1 == [s EXCEPT !.ev = Sent(s, "exit", side, s.position_size, o, order, reason)]
         IN ExitResult(s1, order)

\* A bug: the stop-loss boundary is left out.
StopLossHit_Mut(cur, entry) == (cur - entry) * 100 < (0 - StopLossPct) * entry

\* `pnl_pct <= -0.02` with pnl_pct = (current_price - entry_price) / entry_price
StopLossHit(cur, entry) == (cur - entry) * 100 <= (0 - StopLossPct) * entry

\* A bug: the take-profit boundary is left out.
TakeProfitHit_Mut(cur, entry) == (cur - entry) * 100 > TakeProfitPct * entry

\* `pnl_pct >= 0.03`
TakeProfitHit(cur, entry) == (cur - entry) * 100 >= TakeProfitPct * entry

\* `pnl_pct * 100`
PnlPct100(cur, entry) == Frac((cur - entry) * 100, entry)

\* A bug: a tick without a position clears the unrealized PnL.
check_position_management_Mut(s, o) ==
    IF s.position = NoPosition \/ Falsy(s.entry_price) \/ Falsy(s.current_price)
    THEN [s EXCEPT !.unrealized_pnl = Frac(0, 1)]
    ELSE IF s.position = "LONG"
         THEN LET cur == s.current_price
                  entry == s.entry_price
              IN IF bot = "base"
                 THEN LET s1 == IF StopLossHit(cur, entry)
                                THEN close_position(s, "Stop Loss", o)
                                ELSE IF TakeProfitHit(cur, entry)
                                     THEN close_position(s, "Take Profit", o)
                                     ELSE s
                      IN [s1 EXCEPT !.unrealized_pnl = PnlPct100(cur, entry)]
                 ELSE IF StopLossHit(cur, entry)
                      THEN close_position(s, "Stop Loss", o)
                      ELSE IF TakeProfitHit(cur, entry)
                           THEN close_position(s, "Take Profit", o)
                           ELSE [s EXCEPT !.unrealized_pnl = PnlPct100(cur, entry)]
         ELSE s

\* check_position_management.  The base class stores the unrealized
\* percentage after the exit too; the two bots return after the exit.
check_position_management(s, o) ==
    IF s.position = NoPosition \/ Falsy(s.entry_price) \/ Falsy(s.current_price)
    THEN s
    ELSE IF s.position = "LONG"
         THEN LET cur == s.current_price
                  entry == s.entry_price
              IN IF bot = "base"
                 THEN LET s1 == IF StopLossHit(cur, entry)
                                THEN close_position(s, "Stop Loss", o)
                                ELSE IF TakeProfitHit(cur, entry)
                                     THEN close_position(s, "Take Profit", o)
                                     ELSE s
                      IN [s1 EXCEPT !.unrealized_pnl = PnlPct100(cur, entry)]
                 ELSE IF StopLossHit(cur, entry)
                      THEN close_position(s, "Stop Loss", o)
                      ELSE IF TakeProfitHit(cur, entry)
                           THEN close_position(s, "Take Profit", o)
                           ELSE [s EXCEPT !.unrealized_pnl = PnlPct100(cur, entry)]
         ELSE s

(***************************************************************************)
(* Indicators and strategies                                               *)
(***************************************************************************)
\* The None of an indicator: a fraction with denominator 0.
NoneFrac == Frac(0, 0)

\* `not x` of an indicator value: None or 0.
FalsyFrac(f) == f.den = 0 \/ f.num = 0

\* A bug: the average is taken of a store that is too short.
calculate_ma_Mut(q, period) == Frac(SumSeq(LastN(q, period)), period)

\* calculate_ma(period)
calculate_ma(q, period) ==
    IF Len(q) < period THEN NoneFrac
    ELSE Frac(SumSeq(LastN(q, period)), period)

\* The sums of the gains and of the losses of consecutive closes.
RECURSIVE SumGains(_)
SumGains(closes) ==
    IF Len(closes) < 2 THEN 0
    ELSE (IF closes[2] - closes[1] > 0 THEN closes[2] - closes[1] ELSE 0)
         + SumGains(Tail(closes))

RECURSIVE SumLosses(_)
SumLosses(closes) ==
    IF Len(closes) < 2 THEN 0
    ELSE (IF closes[2] - closes[1] > 0 THEN 0 ELSE closes[1] - closes[2])
         + SumLosses(Tail(closes))

\* A bug: no test of avg_loss == 0 before the division.
calculate_rsi_Mut(q, period) ==
    IF Len(q) < period + 1 THEN NoneFrac
    ELSE LET closes == LastN(q, period + 1)
             g == SumGains(closes)
             l == SumLosses(closes)
         IN Frac(100 * (l + g) - 100 * l, l + g)

\* calculate_rsi(period): 100 - 100 / (1 + avg_gain / avg_loss)
calculate_rsi(q, period) ==
    IF Len(q) < period + 1 THEN NoneFrac
    ELSE LET closes == LastN(q, period + 1)
             g == SumGains(closes)
             l == SumLosses(closes)
         IN IF l = 0 THEN Frac(100, 1)
            ELSE Frac(100 * (l + g) - 100 * l, l + g)

\* A bug: equal averages count as a cross upwards.
check_ma_cross_strategy_Mut(s) ==
    LET ma_fast == calculate_ma(s.klines, MaFast)
        ma_slow == calculate_ma(s.klines, MaSlow)
    IN IF FalsyFrac(ma_fast) \/ FalsyFrac(ma_slow) THEN "None"
       ELSE IF ma_fast.num * ma_slow.den >= ma_slow.num * ma_fast.den /\ s.position # "LONG"
            THEN "BUY"
            ELSE IF ma_fast.num * ma_slow.den < ma_slow.num * ma_fast.den /\ s.position = "LONG"
                 THEN "SELL"
                 ELSE "None"

\* check_ma_cross_strategy (the 'ma_cross' branch of the base check_strategy)
check_ma_cross_strategy(s) ==
    LET ma_fast == calculate_ma(s.klines, MaFast)
        ma_slow == calculate_ma(s.klines, MaSlow)
    IN IF FalsyFrac(ma_fast) \/ FalsyFrac(ma_slow) THEN "None"
       ELSE IF ma_fast.num * ma_slow.den > ma_slow.num * ma_fast.den /\ s.position # "LONG"
            THEN "BUY"
            ELSE IF ma_fast.num * ma_slow.den < ma_slow.num * ma_fast.den /\ s.position = "LONG"
                 THEN "SELL"
                 ELSE "None"

\* check_rsi_strategy (the 'rsi' branch of the base check_strategy)
check_rsi_strategy(s) ==
    LET rsi == calculate_rsi(s.klines, RsiPeriod)
    IN IF FalsyFrac(rsi) THEN "None"
       ELSE IF rsi.num < RsiOversold * rsi.den /\ s.position # "LONG"
            THEN "BUY"
            ELSE IF rsi.num > RsiOverbought * rsi.den /\ s.position = "LONG"
                 THEN "SELL"
                 ELSE "None"

\* check_strategy
check_strategy(s) ==
    CASE strategy_name = "ma_cross" -> check_ma_cross_strategy(s)
      [] strategy_name = "rsi" -> check_rsi_strategy(s)
      [] OTHER -> "None"

(***************************************************************************)
(* Status report                                                           *)
(***************************************************************************)
\* A bug: the division is not guarded.
HasTrades_Mut(s) == TRUE

\* `if self.total_trades > 0:` before the win rate is computed
HasTrades(s) == s.total_trades > 0

\* The statistics block of print_status and of stop(): the win rate
\* winning_trades / total_trades * 100 is evaluated (num over den) or skipped.
WinRateStats(s) ==
    IF HasTrades(s)
    THEN [printed |-> TRUE, evaluated |-> TRUE, num |-> s.winning_trades * 100,
          den |-> s.total_trades]
    ELSE [printed |-> TRUE, evaluated |-> FALSE, num |-> 0, den |-> 1]

\* print_status.  The Binance bot formats current_price with :.2f first, which
\* raises TypeError for None (the calling handler catches it).
print_status(s) ==
    IF bot = "binance" /\ s.current_price = None THEN s
    ELSE [s EXCEPT !.ev.stats = WinRateStats(s)]

\* The final statistics stop() prints (Binance and SSI).
final_statistics(s) ==
    IF bot = "base" THEN s ELSE [s EXCEPT !.ev.stats = WinRateStats(s)]

(***************************************************************************)
(* Handlers                                                                *)
(***************************************************************************)
\* A bug: a store without maxlen.
AppendKline_Mut(q, close) == Append(q, close)

\* self.klines.append(...) on a deque(maxlen=200)
AppendKline(q, close) ==
    IF Len(q) >= KlinesMaxLen THEN Append(Tail(q), close) ELSE Append(q, close)

\* The first half of on_kline_message for a closed candle: the candle is
\* stored and `signal = self.check_strategy()` is evaluated.
kline_signal(s, closed, close) ==
    LET s1 == [s EXCEPT !.klines = AppendKline(@, close),
                        !.klines_closed = AppendKline(@, closed),
                        !.kline_events = @ + 1]
    IN [s1 EXCEPT !.ev.signal = check_strategy(s1)]

\* The second half: `if signal:` the position is opened or closed, as
\* self.position reads now, and the status is printed.  An exception of
\* close_position skips the status.
kline_dispatch(s2, signal, o) ==
    LET s3 == IF signal # "None"
              THEN IF signal \in {"BUY", "SELL"} /\ s2.position = NoPosition
                   THEN open_position(s2, signal, o, 0)
                   ELSE IF signal = "SELL" /\ s2.position = "LONG"
                        THEN close_position(s2, "Strategy signal", o)
                        ELSE s2
              ELSE s2
    IN IF s3.ev.raised THEN s3 ELSE print_status(s3)

\* BinanceTradingBot.on_kline_message: the candle is stored, the strategy is
\* asked, the position is opened or closed, the status is printed.
on_kline_message(s, closed, close, o) ==
    IF ~closed THEN s
    ELSE LET s2 == kline_signal(s, closed, close)
         IN kline_dispatch(s2, s2.ev.signal, o)

\* A bug: the tick handler asks the strategy and enters on BUY.
on_trade_message_Mut(s, price, o) ==
    LET s0 == [s EXCEPT !.current_price = price]
        signal == check_strategy(s0)
        s1 == [s0 EXCEPT !.ev.signal = signal]
    IN IF signal = "BUY" /\ s1.position = NoPosition
       THEN open_position(s1, "BUY", o, 0)
       ELSE check_position_management(s1, o)

\* BinanceTradingBot.on_trade_message, SSITradingBot.on_market_update: the
\* price is stored, then check_position_management runs.
on_trade_message(s, price, o) ==
    LET s1 == check_position_management([s EXCEPT !.current_price = price], o)
    IN IF bot = "ssi" THEN print_status(s1) ELSE s1

\* The reason stop() gives close_position.
StopReason == IF bot = "base" THEN "Bot Stopped" ELSE "Bot stopped"

\* stop().  An exception of close_position leaves stop() before running is
\* cleared, and ends the program.
stop(s, o) ==
    LET s1 == IF s.position # NoPosition THEN close_position(s, StopReason, o) ELSE s
    IN IF s1.ev.raised THEN s1 ELSE final_statistics([s1 EXCEPT !.running = FALSE])

\* The threads of the Binance bot: start() runs the trade stream and the
\* kline stream each on a thread of its own; stop() runs on the main thread.
Threads == {"trade", "kline", "main"}

\* No order is waited for.
NoRequest == [op |-> "", arg |-> "", kind |-> "none", side |-> "", quantity |-> 0,
              reason |-> "", signal |-> NotEvaluated]

(***************************************************************************)
(* The state after construction and start(): the configuration, the seeded *)
(* candle history, no price yet, no position.  The Binance bot loads what  *)
(* get_klines returns for limit = 200: the venue's last HistoryLimit       *)
(* candles, or fewer for a young symbol, the last of which may be the      *)
(* candle still forming (forming); start() appends every row.              *)
(***************************************************************************)
Flat(n, close) == [i \in 1..n |-> close]

Configs ==
    {[bot |-> "base", mode |-> my[1], symbol |-> my[2], strategy_name |-> "ma_cross",
      trade_amount_qty |-> 0, klines |-> <<>>, forming |-> FALSE] :
        my \in {<<"futures", "VN30F1M">>, <<"futures", "BTCUSDT">>, <<"spot", "VN30F1M">>}}
    \cup
    {[bot |-> "binance", mode |-> "spot", symbol |-> "BTCUSDT", strategy_name |-> sh[1],
      trade_amount_qty |-> 0, klines |-> sh[2], forming |-> sh[3]] :
        sh \in {<<"ma_cross", Flat(MaSlow, 100), FALSE>>,
                <<"rsi", Append(Flat(MaSlow - 1, 100), 97), FALSE>>,
                <<"ma_cross", Flat(HistoryLimit, 100), TRUE>>,
                <<"ma_cross", Flat(MaFast - 2, 100), FALSE>>,
                <<"rsi", Flat(RsiPeriod - 1, 100), FALSE>>}}
    \cup
    {[bot |-> "ssi", mode |-> m, symbol |-> "VN30F1M", strategy_name |-> "ma_cross",
      trade_amount_qty |-> 1, klines |-> Flat(SSISeedCandles, SSISeedClose),
      forming |-> FALSE] :
        m \in {"spot", "futures"}}

Init ==
    \E c \in Configs :
        /\ bot = c.bot
        /\ mode = c.mode
        /\ symbol = c.symbol
        /\ strategy_name = c.strategy_name
        /\ trade_amount_qty = c.trade_amount_qty
        /\ klines = c.klines
        /\ klines_closed = [i \in 1..Len(c.klines) |-> i < Len(c.klines) \/ ~c.forming]
        /\ current_price = None
        /\ position = NoPosition
        /\ entry_price = None
        /\ position_size = 0
        /\ unrealized_pnl = Frac(0, 1)
        /\ total_trades = 0
        /\ winning_trades = 0
        /\ total_pnl = 0
        /\ running = TRUE
        /\ ev = NewEv("init", "")
        /\ filled_entries = 0
        /\ filled_exits = 0
        /\ kline_events = 0
        /\ pc = [t \in Threads |-> "idle"]
        /\ waiting = [t \in Threads |-> NoRequest]
        /\ calc = NoCalc

\* The program runs: stop() has neither returned nor raised.
Alive == running /\ ~(ev.op = "stop" /\ ev.raised)

\* A handler's result is taken while the model's bounds allow it.
Within(s) ==
    /\ s.total_trades <= MaxTrades
    /\ s.kline_events <= MaxKlineEvents
    /\ s.filled_exits <= MaxTrades + 1

FailOutcome == CHOOSE o \in Outcomes : ~o.ok

\* A call of a handler with its arguments: the price of a tick, the candle of
\* a kline message, the signal and the abstract quantity of open_position.
Call(op, arg, price, closed, close, absq) ==
    [op |-> op, arg |-> arg, price |-> price, closed |-> closed, close |-> close,
     absq |-> absq]

\* What call c makes of the present state when the gateway answers o to the
\* order it sends, if it sends one.
Handle(c, o) ==
    LET s == [State EXCEPT !.ev = NewEv(c.op, c.arg)] IN
    CASE c.op = "tick" -> on_trade_message(s, c.price, o)
      [] c.op = "kline" -> on_kline_message(s, c.closed, c.close, o)
      [] c.op = "open_position" -> open_position(s, c.arg, o, c.absq)
      [] c.op = "close_position" ->
             close_position(s, IF bot = "base" THEN "Signal" ELSE "Strategy signal", o)
      [] c.op = "print_status" -> print_status(s)
      [] OTHER -> stop(s, o)

\* One run of call c: every answer of the gateway is tried when c sends an
\* order.
Run(c) ==
    \E probe \in {Handle(c, FailOutcome)} :
        \E o \in (IF probe.ev.kind = "none" THEN {FailOutcome} ELSE OutcomesOf(bot)) :
            \E s \in {Handle(c, o)} : Within(s) /\ SetState(s) /\ UNCHANGED <<pc, waiting>>

\* A price tick arrives.
OnTradeMessage ==
    \E price \in Prices :
        /\ Alive
        /\ Run(Call("tick", "", price, FALSE, 0, 0))

\* The 'x' of a kline message, as the history records it.
KlineFlag(closed) == IF closed THEN "closed" ELSE "forming"

\* A kline message arrives (Binance), for a closed or a still-forming candle.
OnKlineMessage ==
    \E closed \in BOOLEAN, close \in KlineCloses :
        /\ Alive
        /\ bot = "binance"
        /\ Run(Call("kline", KlineFlag(closed), 0, closed, close, 0))

\* open_position(signal) is called by the code that drives the bot: the
\* handlers of the base class and of the SSI bot never call it themselves
\* (the Binance bot's candle handler does, and is its only caller).
OpenPosition ==
    \E signal \in {"BUY", "SELL"},
       absq \in (IF bot = "base" THEN AbstractQuantities ELSE {0}) :
        /\ Alive
        /\ bot # "binance"
        /\ Run(Call("open_position", signal, 0, FALSE, 0, absq))

\* close_position() is called with its default reason, likewise.
ClosePosition ==
    /\ Alive
    /\ bot # "binance"
    /\ Run(Call("close_position", "", 0, FALSE, 0, 0))

\* print_status() is called by the code that drives the base bot.
PrintStatus ==
    /\ Alive
    /\ bot = "base"
    /\ Run(Call("print_status", "", 0, FALSE, 0, 0))

\* stop() is called.
Stop ==
    /\ Alive
    /\ Run(Call("stop", "", 0, FALSE, 0, 0))

Next ==
    \/ OnTradeMessage
    \/ OnKlineMessage
    \/ OpenPosition
    \/ ClosePosition
    \/ PrintStatus
    \/ Stop

Spec == Init /\ [][Next]_vars

(***************************************************************************)
(* The running bot with a feed that keeps sending ticks at a price beyond  *)
(* the stop-loss or take-profit threshold of the open LONG position, and a *)
(* gateway that comes to accept the exit order: such a tick with an        *)
(* accepted order is not postponed for ever.  stop() is left out, as no    *)
(* tick is handled after it.                                               *)
(***************************************************************************)
\* A tick of the LONG position at 2% or more under, or 3% or more over, the
\* entry price, whose order the gateway accepts.
RetryTick ==
    \E price \in Prices, o \in {x \in OutcomesOf(bot) : x.ok} :
        /\ Alive
        /\ position = "LONG"
        /\ entry_price > 0
        /\ \/ (price - entry_price) * 100 <= (0 - StopLossPct) * entry_price
           \/ (price - entry_price) * 100 >= TakeProfitPct * entry_price
        /\ \E s \in {Handle(Call("tick", "", price, FALSE, 0, 0), o)} :
               Within(s) /\ SetState(s) /\ UNCHANGED <<pc, waiting>>

NextRetry ==
    \/ OnTradeMessage
    \/ OnKlineMessage
    \/ OpenPosition
    \/ ClosePosition
    \/ PrintStatus

SpecRetry == Init /\ [][NextRetry]_vars /\ WF_vars(RetryTick)

(***************************************************************************)
(* The Binance bot as start() runs it: the two stream threads call their   *)
(* handlers with no lock, and a thread that waits for the gateway to       *)
(* answer create_order lets the others run.  A handler is cut at that      *)
(* call: what precedes it is one step, what follows it another.  The       *)
(* candle handler is cut once more where check_strategy returns a signal:  *)
(* the interpreter may switch threads between the strategy's reading of    *)
(* self.position and the handler's own.                                    *)
(***************************************************************************)
\* The entries the threads may fill: one more than the handlers taken one at
\* a time, for the entry that follows a position closed by another thread.
MaxThreadTrades == 2

\* A thread's step is taken while the bounds allow it.
WithinThreads(s) ==
    /\ s.total_trades <= MaxThreadTrades
    /\ s.kline_events <= MaxKlineEvents
    /\ s.filled_exits <= MaxThreadTrades + 1

\* The order a handler is about to send, taken from its history record.
RequestOf(e) ==
    [op |-> e.op, arg |-> e.arg, kind |-> e.kind, side |-> e.side,
     quantity |-> e.quantity, reason |-> e.reason, signal |-> e.signal]

\* Thread t has run its handler to s: to the gateway call when the handler
\* sends an order, to its end when it sends none.
Proceed(t, s) ==
    /\ WithinThreads(s)
    /\ IF s.ev.kind = "none"
       THEN /\ SetState(s)
            /\ pc' = [pc EXCEPT ![t] = "idle"]
            /\ waiting' = [waiting EXCEPT ![t] = NoRequest]
       ELSE /\ SetState([s EXCEPT !.ev = [NewEv(s.ev.op, s.ev.arg) EXCEPT
                                             !.kind = "request",
                                             !.side = s.ev.side,
                                             !.quantity = s.ev.quantity,
                                             !.reason = s.ev.reason,
                                             !.signal = s.ev.signal]])
            /\ pc' = [pc EXCEPT ![t] = "order"]
            /\ waiting' = [waiting EXCEPT ![t] = RequestOf(s.ev)]

\* Thread t runs call c up to the gateway call, or to its end when c sends
\* no order.  Of stop() this is the close_position it starts with.
Begin(t, c) ==
    \E s \in {IF c.op = "stop"
               THEN close_position([State EXCEPT !.ev = NewEv("stop", "")], StopReason,
                                   FailOutcome)
               ELSE Handle(c, FailOutcome)} :
        Proceed(t, s)

\* The rest of open_position or close_position on thread t once the gateway
\* answered o: the fields are read as they are now.
AfterOrder(t, o) ==
    LET r == waiting[t]
        order == place_spot_order(o, r.quantity)
        e == [NewEv(r.op, r.arg) EXCEPT !.signal = r.signal]
        s1 == [State EXCEPT !.ev = Sent([ev |-> e], r.kind, r.side,
                                        r.quantity, o, order, r.reason)]
    IN IF r.kind = "entry" THEN EntryResult(s1, r.side, order) ELSE ExitResult(s1, order)

\* What the handler of thread t does after open_position or close_position
\* returned: the candle handler prints the status, stop() clears running;
\* an exception skips it.
RestOf(t, s) ==
    IF s.ev.raised THEN s
    ELSE CASE t = "kline" -> print_status(s)
           [] t = "main" -> [s EXCEPT !.running = FALSE]
           [] OTHER -> s

\* Where the main thread stands after close_position returned inside stop():
\* about to close the streams, or dead when the exception left stop().
AfterStopClose(s) == IF s.ev.raised THEN "done" ELSE "closing"

\* The stream threads take messages until stop() has closed the sockets or
\* the main thread has ended; no handler looks at self.running.
StreamsOpen == pc["main"] # "done"

\* Thread t gets the gateway's answer and runs its handler to the end.
Finish(t) ==
    /\ pc[t] = "order"
    /\ \E o \in Outcomes :
           \E s \in {AfterOrder(t, o)} :
               /\ WithinThreads(s)
               /\ SetState(RestOf(t, s))
               /\ pc' = [pc EXCEPT ![t] = IF t = "main" THEN AfterStopClose(s) ELSE "idle"]
               /\ waiting' = [waiting EXCEPT ![t] = NoRequest]

\* The trade stream's thread takes a message.
TradeThreadBegin ==
    \E price \in Prices :
        /\ StreamsOpen
        /\ pc["trade"] = "idle"
        /\ Begin("trade", Call("tick", "", price, FALSE, 0, 0))

\* The gateway answers the trade thread.  A handler under way when stop()
\* returns may still run to its end before the interpreter exits.
TradeThreadFinish == pc["trade"] = "order" /\ Finish("trade")

\* The kline stream's thread takes a message and runs its handler up to
\* the signal check_strategy returns; a message of a forming candle, and a
\* candle with no signal, are handled to the end.
KlineThreadBegin ==
    \E closed \in BOOLEAN, close \in KlineCloses :
        \E s \in {kline_signal([State EXCEPT !.ev = NewEv("kline", KlineFlag(closed))],
                               closed, close)} :
            /\ StreamsOpen
            /\ pc["kline"] = "idle"
            /\ IF closed /\ s.ev.signal # "None"
               THEN /\ WithinThreads(s)
                    /\ SetState(s)
                    /\ pc' = [pc EXCEPT !["kline"] = "signal"]
                    /\ waiting' = [waiting EXCEPT !["kline"] = RequestOf(s.ev)]
               ELSE Begin("kline", Call("kline", KlineFlag(closed), 0, closed, close, 0))

\* The kline thread goes on from `if signal:` with the signal it holds and
\* the position as it is now.
KlineThreadDispatch ==
    /\ pc["kline"] = "signal"
    /\ \E s \in {kline_dispatch([State EXCEPT !.ev =
                                     [NewEv("kline", waiting["kline"].arg) EXCEPT
                                         !.signal = waiting["kline"].signal]],
                                 waiting["kline"].signal, FailOutcome)} :
           Proceed("kline", s)

\* The gateway answers the kline thread.
KlineThreadFinish == pc["kline"] = "order" /\ Finish("kline")

\* Ctrl+C: the main thread calls stop(), which closes the open position
\* first, if there is one.
MainThreadStop ==
    /\ pc["main"] = "idle"
    /\ IF position # NoPosition
       THEN Begin("main", Call("stop", "", 0, FALSE, 0, 0))
       ELSE /\ SetState([State EXCEPT !.ev = NewEv("stop", ""),
                                      !.running = FALSE])
            /\ pc' = [pc EXCEPT !["main"] = "closing"]
            /\ UNCHANGED waiting

\* The gateway answers the main thread; stop() then clears running.
MainThreadFinish == pc["main"] = "order" /\ Finish("main")

\* stop() closes the two sockets and prints the final statistics.
MainThreadCloseStreams ==
    /\ pc["main"] = "closing"
    /\ SetState(final_statistics(State))
    /\ pc' = [pc EXCEPT !["main"] = "done"]
    /\ UNCHANGED waiting

InitThreads == Init /\ bot = "binance"

NextThreads ==
    \/ TradeThreadBegin
    \/ TradeThreadFinish
    \/ KlineThreadBegin
    \/ KlineThreadDispatch
    \/ KlineThreadFinish
    \/ MainThreadStop
    \/ MainThreadFinish
    \/ MainThreadCloseStreams

SpecThreads == InitThreads /\ [][NextThreads]_vars

(***************************************************************************)
(* The rounding, sizing and indicator functions called on their own, with  *)
(* arguments from bounded sets.                                            *)
(***************************************************************************)
Classes == {"base", "binance", "ssi"}

\* 0.001, 0.005, 0.1, 1.0, 5.0 (floats) and 1, 5, 100 (ints)
StepSizes ==
    {Step(TRUE, 1, 3), Step(TRUE, 5, 3), Step(TRUE, 1, 1), Step(TRUE, 1, 0),
     Step(TRUE, 5, 0), Step(FALSE, 1, 0), Step(FALSE, 5, 0), Step(FALSE, 100, 0)}

\* 0, 0.12345, 0.202, 2.04, 7, 12.34, 99, 1234.5
RawValues ==
    {Frac(0, 1), Frac(12345, 100000), Frac(202, 1000), Frac(204, 100), Frac(7, 1),
     Frac(1234, 100), Frac(99, 1), Frac(12345, 10)}

\* trade_amount_usdt: 5, 6.1725, 100, 200
Amounts == {Frac(5, 1), Frac(61725, 10000), Frac(100, 1), Frac(200, 1)}

\* current_price at sizing; 0 stands for a price not yet received
SizingPrices == {0, 3, 50, 98}

\* A window of RsiPeriod + 1 closes: from 100, k steps of d1, then steps of d2.
Ramp(k, d1, d2) ==
    [i \in 1..(RsiPeriod + 1) |->
        100 + d1 * (IF i - 1 < k THEN i - 1 ELSE k) + d2 * (IF i - 1 < k THEN 0 ELSE i - 1 - k)]

RsiDeltas == {-3, -1, 0, 2}

RsiWindows == {Ramp(k, d1, d2) : k \in 0..RsiPeriod, d1 \in RsiDeltas, d2 \in RsiDeltas}

\* Everything but calc.
botvars == <<bot, mode, symbol, strategy_name, trade_amount_qty, current_price, klines,
             klines_closed, position, entry_price, position_size, unrealized_pnl,
             total_trades, winning_trades, total_pnl, running, ev, filled_entries,
             filled_exits, kline_events, pc, waiting>>

CalcRoundQuantity ==
    \E cls \in Classes, raw \in RawValues, step \in StepSizes :
        /\ calc' = [NoCalc EXCEPT !.fn = "round_quantity", !.cls = cls, !.raw = raw,
                                  !.step = step,
                                  !.out = class_round_quantity(cls, raw, step)]
        /\ UNCHANGED botvars

CalcRoundPrice ==
    \E cls \in Classes, raw \in RawValues, tick \in StepSizes :
        /\ calc' = [NoCalc EXCEPT !.fn = "round_price", !.cls = cls, !.raw = raw,
                                  !.step = tick,
                                  !.out = class_round_price(cls, raw, tick)]
        /\ UNCHANGED botvars

\* BinanceTradingBot.calculate_quantity with the symbol's step_size and
\* min_notional.
CalcQuantity ==
    \E amount \in Amounts, price \in SizingPrices, step \in {s \in StepSizes : s.float} :
        /\ calc' = [NoCalc EXCEPT !.fn = "calculate_quantity", !.cls = "binance",
                                  !.raw = amount, !.price = price, !.step = step,
                                  !.min_notional = MinNotional,
                                  !.out = IF Falsy(price) THEN 0
                                          ELSE notional_quantity(amount, price, MinNotional,
                                                                 TextDecimals(step), CalcScale)]
        /\ UNCHANGED botvars

CalcRsi ==
    \E window \in RsiWindows :
        /\ calc' = [NoCalc EXCEPT !.fn = "calculate_rsi", !.window = window,
                                  !.rsi = calculate_rsi(window, RsiPeriod)]
        /\ UNCHANGED botvars

InitCalc == Init /\ bot = "base" /\ mode = "spot"

NextCalc ==
    \/ CalcRoundQuantity
    \/ CalcRoundPrice
    \/ CalcQuantity
    \/ CalcRsi

SpecCalc == InitCalc /\ [][NextCalc]_vars

(***************************************************************************)
(* Properties                                                              *)
(***************************************************************************)
\* C1: at most one position is open.  open_position called while a position
\* exists sends no order, so the number of entry orders the gateway filled
\* minus the number of exit orders it filled is always 0 or 1.
C1_AtMostOnePosition ==
    /\ filled_entries - filled_exits \in {0, 1}
    /\ ev.guarded => (ev.kind = "none" /\ position # NoPosition)

\* C2: the tick handler and the candle handler of the Binance bot never run
\* interleaved: while one of them is between its reads and its writes of the
\* shared fields, the other takes no step.
C2_Serialized ==
    [][/\ pc["kline"] = "order" => ev'.op # "tick"
       /\ pc["trade"] = "order" => ev'.op # "kline"]_vars

\* C3: when the gateway fails on an entry order, the position stays None and
\* entry_price, position_size, total_trades and the other fields are as they
\* were before (the candle handler has appended its candle by then).
C3_FailedEntryNoChange ==
    [][(ev'.kind = "entry" /\ ~ev'.ok) =>
           /\ position = NoPosition
           /\ position' = NoPosition
           /\ UNCHANGED <<entry_price, position_size, total_trades, winning_trades,
                          total_pnl, unrealized_pnl, current_price, running>>
           /\ ev'.op = "open_position" => UNCHANGED klines]_vars

\* C3, its case: an entry order has just failed.
C3_Witness ==
    ev.kind = "entry" /\ ~ev.ok /\ ev.quantity > 0 /\ position = NoPosition

\* C4: when the gateway fails on an exit order, the position stays open with
\* the same side, entry_price and position_size, and total_pnl and
\* winning_trades are as they were before.
C4_FailedExitKeepsPosition ==
    [][(ev'.kind = "exit" /\ ~ev'.ok) =>
           /\ position # NoPosition
           /\ UNCHANGED <<position, entry_price, position_size, total_pnl,
                          winning_trades, total_trades>>]_vars

\* C4, its case: an exit order for a position of some size has just failed.
C4_Witness ==
    ev.kind = "exit" /\ ~ev.ok /\ position # NoPosition /\ position_size > 0

\* C5: for an open LONG position with an entry price above zero, a tick
\* sends a Stop Loss exit exactly when (current_price - entry_price) /
\* entry_price <= -0.02 and a Take Profit exit exactly when it is >= 0.03,
\* the boundaries included, and no order strictly between the two.
C5_LongStopLossTakeProfit ==
    [][(ev'.op = "tick" /\ position = "LONG" /\ entry_price > 0) =>
           LET cur == current_price'
               sl == (cur - entry_price) * 100 <= (0 - 2) * entry_price
               tp == (cur - entry_price) * 100 >= 3 * entry_price
           IN /\ sl <=> (ev'.kind = "exit" /\ ev'.reason = "Stop Loss")
              /\ tp <=> (ev'.kind = "exit" /\ ev'.reason = "Take Profit")
              /\ (~sl /\ ~tp) => ev'.kind = "none"
              /\ ev'.kind = "exit" => (ev'.side = "SELL" /\ ev'.quantity = position_size)]_vars

\* C5, its case: a tick exactly 2% under the entry price of a LONG position
\* has sent a Stop Loss exit (which the gateway failed, so the position shows).
C5_Witness ==
    /\ ev.op = "tick" /\ ev.kind = "exit" /\ ev.reason = "Stop Loss" /\ ~ev.ok
    /\ position = "LONG"
    /\ (current_price - entry_price) * 100 = (0 - 2) * entry_price

\* C6: for an open SHORT position with an entry price above zero, a tick
\* sends a Stop Loss exit when (entry_price - current_price) / entry_price
\* <= -0.02 and a Take Profit exit when it is >= 0.03.
C6_ShortStopLossTakeProfit ==
    [][(ev'.op = "tick" /\ position = "SHORT" /\ entry_price > 0) =>
           LET cur == current_price'
               sl == (entry_price - cur) * 100 <= (0 - 2) * entry_price
               tp == (entry_price - cur) * 100 >= 3 * entry_price
           IN /\ sl => (ev'.kind = "exit" /\ ev'.reason = "Stop Loss")
              /\ tp => (ev'.kind = "exit" /\ ev'.reason = "Take Profit")]_vars

\* C7: entry_price is not None and position_size is above zero exactly when
\* position is LONG or SHORT; an open position never has an entry price of 0;
\* with no position entry_price is None and position_size is 0.
C7_PositionFieldsDefined ==
    /\ position \in {"LONG", "SHORT"} <=> (entry_price # None /\ position_size > 0)
    /\ position \in {"LONG", "SHORT"} => entry_price # 0
    /\ position = NoPosition => (entry_price = None /\ position_size = 0)

C9_RealizedPnl ==
    [][(ev'.kind = "exit" /\ ev'.ok) =>
           LET exit_price == ev'.price
               pnl == ev'.pnl
           IN /\ position = "LONG" =>
                    /\ pnl = (exit_price - entry_price) * position_size * ContractMultiplier
                    /\ pnl > 0 <=> exit_price > entry_price
              /\ position = "SHORT" =>
                    /\ pnl = 0 - (exit_price - entry_price) * position_size * ContractMultiplier
                    /\ pnl > 0 <=> exit_price < entry_price
              /\ ~ev'.raised => total_pnl' = total_pnl + pnl]_vars

\* C9, its case: a SHORT position was closed under its entry price, at a gain.
C9_Witness ==
    /\ ev.kind = "exit" /\ ev.ok /\ ~ev.raised /\ ev.side = "BUY"
    /\ ev.pnl > 0 /\ total_pnl = ev.pnl /\ position = NoPosition

\* C10: total_trades grows by exactly 1 on each successful entry and at no
\* other time; winning_trades grows by exactly 1 on each successful exit
\* whose pnl is above zero and at no other time.
C10_TradeCounters ==
    [][/\ total_trades' =
              total_trades + (IF ev'.kind = "entry" /\ ev'.ok THEN 1 ELSE 0)
       /\ winning_trades' =
              winning_trades + (IF ev'.kind = "exit" /\ ev'.ok /\ ev'.pnl > 0 THEN 1 ELSE 0)]_vars

\* C11: total_pnl is the signed sum of the pnl of every exit order the
\* gateway filled so far: it starts at 0, grows by the pnl of each such exit,
\* and no failed exit, entry or other step changes it.
C11_TotalPnlIsSum ==
    [][total_pnl' =
           total_pnl + (IF ev'.kind = "exit" /\ ev'.ok THEN ev'.pnl ELSE 0)]_vars

\* C12: the win rate is never computed with total_trades = 0: the status
\* report and the final statistics of stop() evaluate winning_trades /
\* total_trades only with a divisor above zero, and skip it otherwise.
C12_WinRateNoDivisionByZero ==
    /\ ev.stats.evaluated => (ev.stats.den > 0 /\ ev.stats.den = total_trades)
    /\ (ev.stats.printed /\ total_trades = 0) => ~ev.stats.evaluated

\* C12, its case: a candle's status report was printed before any trade.
C12_Witness ==
    ev.op = "kline" /\ ev.stats.printed /\ ~ev.stats.evaluated /\ total_trades = 0

\* C13: once stop() has returned and running is False no position is open:
\* the position open at the stop request was closed through the gateway, with
\* the reason "Bot Stopped", whatever the gateway answered.
C13_StoppedMeansFlat ==
    /\ ~running => position = NoPosition
    /\ (ev.op = "stop" /\ ev.kind = "exit") => ev.reason \in {"Bot Stopped", "Bot stopped"}

\* C14: once stop() has begun on the main thread no entry order is placed
\* and no position is opened: a candle handled from then on, the time
\* between stop's position close and the closing of the kline stream
\* included, sends no entry order and leaves the bot flat.
C14_NoEntryAfterStop ==
    [][pc["main"] # "idle" =>
           /\ (waiting'["kline"].kind = "entry" => waiting["kline"].kind = "entry")
           /\ (position = NoPosition => position' = NoPosition)]_vars

\* C15: check_strategy is called only by the handler of a closed candle.  A
\* price tick evaluates no signal and sends no entry order; the only order
\* it sends is the exit of a Stop Loss or a Take Profit.
C15_StrategyOnlyOnCandleClose ==
    /\ ev.signal # NotEvaluated => ev.op = "kline"
    /\ ev.op = "tick" =>
           /\ ev.signal = NotEvaluated
           /\ ev.kind # "entry"
           /\ (ev.kind = "exit" => ev.reason \in {"Stop Loss", "Take Profit"})

\* C15, its case: a tick arrived while the candles gave a BUY signal and no
\* position was open.
C15_Witness ==
    /\ ev.op = "tick"
    /\ position = NoPosition
    /\ ev.kind = "none"
    /\ check_strategy(State) = "BUY"

\* C16: a kline message of a still-forming candle (closed flag false) adds
\* nothing to the candle store and evaluates no signal, and every candle in
\* the store had closed when it was appended.
C16_OnlyClosedCandles ==
    [][/\ (ev'.op = "kline" /\ ev'.arg = "forming") =>
              (klines' = klines /\ ev'.signal = NotEvaluated)
       /\ \A i \in 1..Len(klines_closed') : klines_closed'[i]]_vars

\* C17: the candle store never holds more than 200 candles, and an append
\* leaves in it the most recent min(n, 200) candles in arrival order: the
\* new candle comes last, the others keep their order, and the oldest one
\* leaves when the store was full.
C17_StoreKeepsLast200 ==
    [][/\ Len(klines') <= KlinesMaxLen
       /\ klines' # klines =>
              /\ Len(klines') > 0
              /\ klines' = LastN(Append(klines, klines'[Len(klines')]), KlinesMaxLen)]_vars

\* C17, its case: two candles were appended to a store that was full, and
\* the two oldest candles left.
C17_Witness ==
    /\ ev.op = "kline"
    /\ kline_events = 2
    /\ Len(klines) = KlinesMaxLen
    /\ klines[KlinesMaxLen] = 90
    /\ klines[KlinesMaxLen - 1] = 103
    /\ klines[KlinesMaxLen - 2] = 100

\* C18: with fewer candles in the store than an indicator needs (fewer than
\* p for the moving average of p, fewer than p + 1 for the RSI of p) the
\* indicator is None; the strategy that needs it gives no signal, and the
\* candle handler that asked it sends no order and raises nothing.
C18_InsufficientData ==
    /\ \A p \in {MaFast, MaSlow} : Len(klines) < p => calculate_ma(klines, p) = NoneFrac
    /\ Len(klines) < RsiPeriod + 1 => calculate_rsi(klines, RsiPeriod) = NoneFrac
    /\ (\/ strategy_name = "ma_cross" /\ Len(klines) < MaSlow
        \/ strategy_name = "rsi" /\ Len(klines) < RsiPeriod + 1) =>
           /\ check_strategy(State) = "None"
           /\ (ev.op = "kline" /\ ev.signal # NotEvaluated) =>
                  (ev.signal = "None" /\ ev.kind = "none" /\ ~ev.raised)

\* C18, its case: a closed candle was handled with enough candles for the
\* fast average and too few for the slow one.
C18_Witness ==
    /\ strategy_name = "ma_cross"
    /\ ev.op = "kline"
    /\ ev.signal = "None"
    /\ Len(klines) >= MaFast
    /\ Len(klines) < MaSlow

\* C19: with the strategy ma_cross and both averages available, the signal
\* is BUY when the fast average is above the slow one and the side is not
\* LONG, SELL when it is below and the side is LONG, and None in every
\* other case, equal averages included.  This holds of check_strategy in
\* every state and of the signal each handled candle got.
C19_MaCrossSignal ==
    [][LET fast == SumSeq(LastN(klines', MaFast)) * MaSlow
           slow == SumSeq(LastN(klines', MaSlow)) * MaFast
           Signal(side) == IF fast > slow /\ side # "LONG" THEN "BUY"
                           ELSE IF fast < slow /\ side = "LONG" THEN "SELL"
                           ELSE "None"
       IN (strategy_name = "ma_cross" /\ Len(klines') >= MaSlow) =>
              /\ check_strategy([klines |-> klines', position |-> position']) =
                     Signal(position')
              /\ (ev'.op = "kline" /\ ev'.signal # NotEvaluated) =>
                     ev'.signal = Signal(position)]_vars

\* C19, its case: a candle brought the fast average under the slow one
\* while the bot was LONG, and the exit order was sent.
C19_Witness ==
    /\ strategy_name = "ma_cross"
    /\ ev.op = "kline"
    /\ ev.signal = "SELL"
    /\ ev.kind = "exit"

\* C20: with the strategy rsi and the RSI computable (at least 15 candles),
\* the signal is BUY for every RSI under 30 when the side is not LONG, the
\* RSI 0 of a window of losses only included, SELL for every RSI over 70
\* when the side is LONG, and None otherwise.  This is said of
\* check_strategy in every state and of the signal each handled candle got.
C20_RsiSignal ==
    [][LET closes == LastN(klines', RsiPeriod + 1)
           g == SumGains(closes)
           l == SumLosses(closes)
           under == l # 0 /\ 100 * g < RsiOversold * (g + l)
           over == l = 0 \/ 100 * g > RsiOverbought * (g + l)
           Signal(side) == IF under /\ side # "LONG" THEN "BUY"
                           ELSE IF over /\ side = "LONG" THEN "SELL"
                           ELSE "None"
       IN (strategy_name = "rsi" /\ Len(klines') >= RsiPeriod + 1) =>
              /\ check_strategy([klines |-> klines', position |-> position']) =
                     Signal(position')
              /\ (ev'.op = "kline" /\ ev'.signal # NotEvaluated) =>
                     ev'.signal = Signal(position)]_vars

\* C21: for every window of period + 1 closes calculate_rsi returns a value
\* from 0 to 100: 100 when no close is under the one before it (the average
\* loss is 0, the division is not made), and 0 when every close is under
\* the one before it.
C21_RsiRange ==
    calc.fn = "calculate_rsi" =>
        LET w == calc.window
            r == calc.rsi
            Steps == 1..(Len(w) - 1)
        IN /\ r.den > 0
           /\ 0 <= r.num /\ r.num <= 100 * r.den
           /\ (\A i \in Steps : w[i + 1] >= w[i]) => r.num = 100 * r.den
           /\ (\A i \in Steps : w[i + 1] < w[i]) => r.num = 0

\* C21, its case: the RSI of a window of equal closes, where the average
\* gain and the average loss are both 0.
C21_Witness ==
    /\ calc.fn = "calculate_rsi"
    /\ \A i \in 1..RsiPeriod : calc.window[i + 1] = calc.window[i]
    /\ calc.rsi = Frac(100, 1)

\* C23: for every raw quantity >= 0 and every step size > 0, round_quantity
\* returns the largest multiple of the step that is not above raw: a whole
\* multiple of the step, also of a step that is no power of ten (0.005, 5),
\* not above raw and under raw by less than one step.
C23_RoundQuantityFloors ==
    (calc.fn = "round_quantity" /\ calc.cls \in {"base", "binance"}) =>
        /\ calc.out = FloorToStep(calc.raw, calc.step)
        /\ calc.out % StepValue(calc.step) = 0
        /\ calc.out * calc.raw.den <= calc.raw.num * CalcScale

\* C24: for every price >= 0 and every tick size > 0, fractional or whole,
\* round_price returns a number, never None, and that number is the largest
\* multiple of the tick that is not above the price.
C24_RoundPriceFloors ==
    calc.fn = "round_price" =>
        /\ calc.out # None
        /\ calc.out = FloorToStep(calc.raw, calc.step)

\* C25: with a price above 0, calculate_quantity returns
\* round_quantity(trade_amount / current_price) when that quantity times
\* the price is at least min_notional, and otherwise
\* round_quantity(min_notional / current_price * 1.01).  A raw quantity of
\* 0.12345 with step 0.001 rounds to 0.123, and with min_notional 10 at
\* price 50 the result is 0.202.
C25_NotionalSizing ==
    (calc.fn = "calculate_quantity" /\ calc.price > 0) =>
        LET first == class_round_quantity("binance",
                                          Frac(calc.raw.num, calc.raw.den * calc.price),
                                          calc.step)
            resized == class_round_quantity("binance",
                                            Frac(calc.min_notional * 101, calc.price * 100),
                                            calc.step)
        IN /\ calc.out = IF first * calc.price >= calc.min_notional * CalcScale
                         THEN first ELSE resized
           /\ (calc.raw = Frac(61725, 10000) /\ calc.price = 50
                   /\ calc.step = Step(TRUE, 1, 3)) =>
                  (first = 12300 /\ calc.out = 20200)

\* C25, its case: 6.1725 USDT at price 50 with step 0.001 and min_notional
\* 10: the raw quantity is 0.12345 and the notional of 0.123 is under 10.
C25_Witness ==
    /\ calc.fn = "calculate_quantity"
    /\ calc.raw = Frac(61725, 10000)
    /\ calc.price = 50
    /\ calc.step = Step(TRUE, 1, 3)
    /\ calc.min_notional = 10
    /\ calc.out = 20200

\* C26: when the quantity open_position computes is zero or negative it
\* returns before the gateway is called: no order is sent, and position,
\* entry_price, position_size and total_trades stay as they were.  So
\* every entry order has a quantity above 0.
C26_InvalidQuantityAborts ==
    [][/\ ev'.reason = "Invalid Quantity" =>
              /\ ev'.kind = "none"
              /\ ev'.quantity <= 0
              /\ UNCHANGED <<position, entry_price, position_size, total_trades,
                             filled_entries>>
       /\ ev'.kind = "entry" => ev'.quantity > 0]_vars

\* C26, its case: open_position was called with no position open and
\* computed the quantity 0.
C26_Witness ==
    /\ ev.reason = "Invalid Quantity"
    /\ ev.quantity = 0
    /\ position = NoPosition

\* C27: an exit the gateway failed is tried again: each later tick at a
\* price that still meets the stop-loss or take-profit threshold sends a
\* new exit order, so that with such ticks arriving and the gateway coming
\* to accept the order, the position that a failed Stop Loss or Take Profit
\* exit left open is closed in the end.
C27_FailedExitRetried ==
    (/\ ev.kind = "exit" /\ ~ev.ok /\ ev.reason \in {"Stop Loss", "Take Profit"}
     /\ position = "LONG") ~> (position = NoPosition)

\* C27, its case: a Take Profit exit has failed and the position is open.
C27_Witness ==
    /\ ev.op = "tick" /\ ev.kind = "exit" /\ ~ev.ok
    /\ ev.reason = "Take Profit"
    /\ position = "LONG" /\ entry_price > 0

\* C28: every exit order is on the side opposite to the open position, SELL
\* for LONG and BUY for SHORT, and for the whole stored position_size,
\* whatever the reason of the exit: Stop Loss, Take Profit, Strategy
\* signal, the stop of the bot or a plain close_position call.
C28_ExitOppositeFullSize ==
    [][ev'.kind = "exit" =>
           /\ position \in {"LONG", "SHORT"}
           /\ ev'.side = (IF position = "LONG" THEN "SELL" ELSE "BUY")
           /\ ev'.quantity = position_size]_vars

\* C28, its case: stop() has sent the exit order of a SHORT position of 2.
C28_Witness ==
    /\ ev.op = "stop"
    /\ ev.kind = "exit"
    /\ ev.side = "BUY"
    /\ ev.quantity = 2

\* C30: a price tick that arrives while no position is open changes
\* current_price only: position, entry_price, position_size,
\* unrealized_pnl, total_trades, winning_trades, total_pnl and the candle
\* store stay as they were, and no order is sent.
C30_FlatTickFrame ==
    [][(ev'.op = "tick" /\ position = NoPosition) =>
           /\ ev'.kind = "none"
           /\ UNCHANGED <<position, entry_price, position_size, unrealized_pnl,
                          total_trades, winning_trades, total_pnl, klines,
                          filled_entries, filled_exits>>]_vars

\* C30, its case: a tick has arrived after the one trade was closed, with
\* the unrealized PnL of that trade still stored.
C30_Witness ==
    /\ ev.op = "tick"
    /\ position = NoPosition
    /\ total_trades = 1
    /\ unrealized_pnl.num # 0
    /\ current_price # None

\* C29: the position is never SHORT in a state the candle-close and tick
\* handlers reach, and every entry order they send is a BUY.
C29_NeverShort ==
    /\ position # "SHORT"
    /\ ev.kind = "entry" => ev.side = "BUY"

\* C22: on a candle-close event the candle is appended before the strategy
\* is evaluated; when the handler acts on the signal, Enter(LONG) (BUY) with
\* a SHORT position open first sends the exit of that position, and Exit
\* (SELL) closes the open position with reason "Strategy signal" and never
\* sends an entry order.
C22_CandleCloseContract ==
    [][/\ (pc["kline"] = "idle" /\ pc'["kline"] = "signal") =>
              /\ klines' = AppendKline(klines, klines'[Len(klines')])
              /\ waiting'["kline"].signal =
                     check_strategy([klines |-> klines', position |-> position])
       /\ (pc["kline"] = "signal" /\ pc'["kline"] # "signal") =>
              /\ (waiting["kline"].signal = "BUY" /\ position = "SHORT") =>
                     waiting'["kline"].kind = "exit"
              /\ waiting["kline"].signal = "SELL" =>
                     /\ waiting'["kline"].kind # "entry"
                     /\ position # NoPosition =>
                            /\ waiting'["kline"].kind = "exit"
                            /\ waiting'["kline"].reason = "Strategy signal"]_vars

\* C31: under every interleaving of the trade thread, the kline thread and
\* stop() no two threads are past close_position's `if self.position is None`
\* test for the same position, and the gateway has filled at most one exit
\* order for each position it opened.
C31_SingleExitPerPosition ==
    /\ Cardinality({t \in Threads : waiting[t].kind = "exit"}) <= 1
    /\ filled_exits <= filled_entries

\* C32: in every reachable state total_trades is the number of exit orders
\* the gateway filled so far, plus 1 while a position is open; so
\* winning_trades <= total_trades and a win rate that is reported is at most
\* 100%.
C32_TradesAccounting ==
    /\ total_trades = filled_exits + (IF position # NoPosition THEN 1 ELSE 0)
    /\ winning_trades <= total_trades
    /\ ev.stats.evaluated => ev.stats.num <= 100 * ev.stats.den

\* C33: the Binance bot sends no entry order before the first price tick:
\* while current_price is None a candle handler sends no entry order, and a
\* BUY signal it gets ends at the quantity test, with no order and no
\* position.
C33_NoEntryBeforeFirstTick ==
    [][(bot = "binance" /\ current_price = None /\ ev'.op = "kline") =>
           /\ ev'.kind = "none"
           /\ position' = NoPosition
           /\ total_trades' = 0
           /\ ev'.signal = "BUY" => (ev'.reason = "Invalid Quantity" /\ ev'.quantity = 0)]_vars

\* C33, its case: a closed candle gave BUY before any tick and the entry was
\* given up at the quantity test.
C33_Witness ==
    /\ bot = "binance"
    /\ current_price = None
    /\ ev.op = "kline"
    /\ ev.signal = "BUY"
    /\ ev.reason = "Invalid Quantity"
    /\ ev.kind = "none"
    /\ position = NoPosition

\* C34: a quantity above 0 that calculate_quantity returns, which
\* open_position then sends as the entry order, has a notional (quantity
\* times current_price) of at least min_notional, for every price, step
\* size and trade amount.
C34_NotionalAtLeastMinimum ==
    (calc.fn = "calculate_quantity" /\ calc.out > 0) =>
        calc.out * calc.price >= calc.min_notional * CalcScale
====
